---- MODULE Spec2Model ----
(***************************************************************************)
(* Model of portfolio_monte_carlo.py: the Monte Carlo portfolio simulator. *)
(*                                                                         *)
(* A number is a rational <<numerator, denominator>> in lowest terms with a *)
(* positive denominator.  A Python float is a binary floating-point number:*)
(* every literal and every result of + - * / is rounded to the nearest     *)
(* number with a significand of Precision bits, ties to even.  CPython     *)
(* rounds to 53 bits; the model keeps the rounding rule and bounds the     *)
(* significand so that the arithmetic stays within TLC's integers.  The    *)
(* exponent is not bounded (no overflow to inf, no subnormals).            *)
(* An absent value (Python None) is the empty tuple.                       *)
(***************************************************************************)
EXTENDS Integers, Sequences, FiniteSets, TLC

\* ---------------------------------------------------------------- bounds
MaxTrials == 2
MaxYears == 2
Precision == 8

\* ------------------------------------------------------ exact arithmetic
None == << >>

NaN == <<0, 0>>

Abs(x) == IF x < 0 THEN -x ELSE x

RECURSIVE GCD(_, _)
GCD(a, b) == IF b = 0 THEN a ELSE GCD(b, a % b)

Rat(n, d) ==
  LET g == GCD(Abs(n), Abs(d))
      s == IF d < 0 THEN -1 ELSE 1
  IN  <<(s * n) \div g, (s * d) \div g>>

FromInt(i) == <<i, 1>>

RAdd(x, y) ==
  LET g == GCD(x[2], y[2])
  IN  Rat(x[1] * (y[2] \div g) + y[1] * (x[2] \div g), (x[2] \div g) * y[2])

RNeg(x) == <<-x[1], x[2]>>

RSub(x, y) == RAdd(x, RNeg(y))

RMul(x, y) ==
  LET g1 == GCD(Abs(x[1]), y[2])
      g2 == GCD(Abs(y[1]), x[2])
  IN  Rat((x[1] \div g1) * (y[1] \div g2), (x[2] \div g2) * (y[2] \div g1))

\* x / y for y # 0
RDiv(x, y) == RMul(x, Rat(y[2], y[1]))

RLess(x, y) ==
  LET g == GCD(x[2], y[2])
  IN  x[1] * (y[2] \div g) < y[1] * (x[2] \div g)

RLeq(x, y) == ~RLess(y, x)

RECURSIVE RPow(_, _)
RPow(x, n) == IF n = 0 THEN FromInt(1) ELSE RMul(x, RPow(x, n - 1))

\* ------------------------------------------------------- float arithmetic
RECURSIVE Pow2(_)
Pow2(k) == IF k = 0 THEN 1 ELSE 2 * Pow2(k - 1)

\* a significand m satisfies SignificandMin <= m < SignificandEnd
SignificandEnd == Pow2(Precision)

SignificandMin == Pow2(Precision - 1)

RECURSIVE Normalise(_, _, _)
\* a/d scaled by powers of two into [SignificandMin, SignificandEnd); k counts
\* the doublings made (negative: halvings)
Normalise(a, d, k) ==
  IF a \div d >= SignificandEnd
  THEN IF a % 2 = 0 THEN Normalise(a \div 2, d, k - 1) ELSE Normalise(a, 2 * d, k - 1)
  ELSE IF a \div d < SignificandMin
  THEN IF d % 2 = 0 THEN Normalise(a, d \div 2, k + 1) ELSE Normalise(2 * a, d, k + 1)
  ELSE <<a, d, k>>

\* q + rem/d rounded to an integer m, ties to even; the result is s * m / 2^k
Nearest(s, q, rem, d, k) ==
  LET m == IF 2 * rem > d \/ (2 * rem = d /\ q % 2 = 1) THEN q + 1 ELSE q
  IN  IF k >= 0 THEN Rat(s * m, Pow2(k)) ELSE Rat(s * m * Pow2(-k), 1)

RoundTo(s, nz) == Nearest(s, nz[1] \div nz[2], nz[1] % nz[2], nz[2], nz[3])

\* the float nearest to x, ties to even
Round(x) ==
  IF x[1] = 0 THEN FromInt(0)
  ELSE RoundTo(IF x[1] < 0 THEN -1 ELSE 1, Normalise(Abs(x[1]), x[2], 0))

\* a decimal literal n/d of the script
Float(n, d) == Round(Rat(n, d))

FAdd(x, y) == Round(RAdd(x, y))

FSub(x, y) == Round(RSub(x, y))

FMul(x, y) == Round(RMul(x, y))

\* x / y for y # 0
FDiv(x, y) == Round(RDiv(x, y))

\* x ** n for an int n >= 0
FPow(x, n) == Round(RPow(x, n))

\* ------------------------------------------------------------ user input
\* 1) the assets (yf.Ticker objects), named by their ticker
Tickers == {"0P0000ZEJ5.TO", "AAPL", "BTC-USD"}

\* What asset.history('max').Close.resample('Y') can deliver for an asset:
\* the yearly closes, possibly none at all.
Closes ==
  [t \in Tickers |->
     IF t = "AAPL" THEN { << >>, <<20>>, <<20, 30>> }
     ELSE IF t = "BTC-USD" THEN { <<2, 3>> }
     ELSE { << >>, <<10>>, <<10, 11>>, <<10, 10, 5>> }]

\* the assets of a portfolio: only their history is ever asked for
AssetsOf(p) == { p[k].asset : k \in 1..Len(p) }

Histories(p) == { h \in [AssetsOf(p) -> UNION {Closes[t] : t \in Tickers}] :
                    \A t \in AssetsOf(p) : h[t] \in Closes[t] }

Holding(a, w) == [asset |-> a, weight |-> w]

\* 2) the portfolios: a dict {asset: weight} in insertion order
portfolio2 ==
  << Holding("0P0000ZEJ5.TO", Float(7, 10)), Holding("AAPL", Float(3, 10)) >>

Portfolios ==
  { portfolio2,
    << Holding("AAPL", Float(3, 10)), Holding("0P0000ZEJ5.TO", Float(7, 10)) >>,
    << Holding("0P0000ZEJ5.TO", Float(1, 1)) >>,
    << Holding("AAPL", Float(14, 100)), Holding("0P0000ZEJ5.TO", Float(56, 100)),
       Holding("BTC-USD", Float(30, 100)) >>,
    << Holding("0P0000ZEJ5.TO", Float(7, 10)), Holding("AAPL", Float(2, 10)) >>,
    << Holding("0P0000ZEJ5.TO", Float(3, 2)), Holding("AAPL", Float(-1, 2)) >> }

\* 3) simulation parameters
INITIAL_INVESTMENT == 100

\* 4) benchmark return: 11.88 / 100
BENCHMARK_ANNUAL_RETURN == FDiv(Float(1188, 100), FromInt(100))

\* bounds a caller passes to growth_probability
GrowthBounds == { None, <<0, 1>>, <<20, 1>> }

VARIABLES
  history,                  \* ticker -> yearly closes (the data provider's answer)
  PORTFOLIO, TRIALS, YEARS_TO_SIMULATE,
  yearly_returns,           \* dict: ticker -> return pool
  data,                     \* the trial matrix
  current_sim_data, portfolio_value, value_to_add,
  trial, year, asset_idx,   \* positions of the three nested loops
  draws,                    \* draws[t][y+1][k]: k-th random.choice of year y, trial t
  final_growths,
  outperformance_probability,
  gp_args, gp_result,       \* last interactive call of growth_probability
  pc, err

vars == << history, PORTFOLIO, TRIALS, YEARS_TO_SIMULATE,
           yearly_returns, data, current_sim_data, portfolio_value, value_to_add,
           trial, year, asset_idx, draws, final_growths,
           outperformance_probability, gp_args, gp_result, pc, err >>

config == << history, PORTFOLIO, TRIALS, YEARS_TO_SIMULATE >>

sim == << data, current_sim_data, portfolio_value, value_to_add,
          trial, year, asset_idx, draws >>

report == << final_growths, outperformance_probability, gp_args, gp_result >>

\* ------------------------------------------------------------- functions
\* lines 82-83
benchmark_future_value ==
  FMul(FromInt(INITIAL_INVESTMENT),
       FPow(FAdd(FromInt(1), BENCHMARK_ANNUAL_RETURN), YEARS_TO_SIMULATE))

\* line 94, Series.pct_change(): nan first, then p_curr / p_prev - 1
pct_change(closes) ==
  [i \in 1..Len(closes) |->
     IF i = 1 THEN NaN
     ELSE FSub(FDiv(FromInt(closes[i]), FromInt(closes[i - 1])), FromInt(1))]

\* get_yearly_returns: data.pop(0) raises IndexError on an empty list
get_yearly_returns(closes) ==
  LET series == pct_change(closes)
  IN  IF Len(series) = 0
      THEN [raised |-> "IndexError", value |-> None]
      ELSE [raised |-> "", value |-> Tail(series)]

Init ==
  /\ PORTFOLIO \in Portfolios
  /\ history \in Histories(PORTFOLIO)
  /\ TRIALS \in 0..MaxTrials
  /\ YEARS_TO_SIMULATE \in 0..MaxYears
  /\ yearly_returns = << >>
  /\ data = << >>
  /\ current_sim_data = << >>
  /\ portfolio_value = FromInt(0)
  /\ value_to_add = FromInt(0)
  /\ trial = 0
  /\ year = 0
  /\ asset_idx = 1
  /\ draws = << >>
  /\ final_growths = << >>
  /\ outperformance_probability = None
  /\ gp_args = None
  /\ gp_result = None
  /\ pc = "load"
  /\ err = ""

Raise(e) == pc' = "failed" /\ err' = e

\* lines 145-147: one iteration of the pool-setup loop
LoadReturns ==
  /\ pc = "load"
  /\ asset_idx <= Len(PORTFOLIO)
  /\ LET t == PORTFOLIO[asset_idx].asset
         r == get_yearly_returns(history[t])
     IN  IF r.raised # ""
         THEN /\ Raise(r.raised)
              /\ UNCHANGED << yearly_returns, asset_idx >>
         ELSE /\ yearly_returns' = (t :> r.value) @@ yearly_returns
              /\ asset_idx' = asset_idx + 1
              /\ UNCHANGED << pc, err >>
  /\ UNCHANGED << config, data, current_sim_data, portfolio_value, value_to_add,
                  trial, year, draws, report >>

\* line 149: the pools are stored, data = []
StartSimulation ==
  /\ pc = "load"
  /\ asset_idx > Len(PORTFOLIO)
  /\ data' = << >>
  /\ pc' = "trial"
  /\ UNCHANGED << config, yearly_returns, current_sim_data, portfolio_value,
                  value_to_add, trial, year, asset_idx, draws, report, err >>

\* a trial loop that leaves portfolio_value as the last trial left it
StartTrial_carry ==
  /\ pc = "trial"
  /\ trial < TRIALS
  /\ current_sim_data' = << >>
  /\ year' = 0
  /\ draws' = Append(draws, << >>)
  /\ pc' = "year"
  /\ UNCHANGED << config, yearly_returns, data, portfolio_value, value_to_add,
                  trial, asset_idx, report, err >>

\* line 151: for _ in range(TRIALS)
MoreTrials == trial < TRIALS

\* lines 151-153
StartTrial ==
  /\ pc = "trial"
  /\ MoreTrials
  /\ current_sim_data' = << >>
  /\ portfolio_value' = FromInt(0)
  /\ year' = 0
  /\ draws' = Append(draws, << >>)
  /\ pc' = "year"
  /\ UNCHANGED << config, yearly_returns, data, value_to_add, trial, asset_idx,
                  report, err >>

\* range(YEARS_TO_SIMULATE) in place of range(YEARS_TO_SIMULATE + 1)
MoreYears_short == year < YEARS_TO_SIMULATE

\* line 155: for year in range(YEARS_TO_SIMULATE + 1)
MoreYears == year < YEARS_TO_SIMULATE + 1

\* lines 155-156
StartYear ==
  /\ pc = "year"
  /\ MoreYears
  /\ value_to_add' = FromInt(0)
  /\ asset_idx' = 1
  /\ draws' = [draws EXCEPT ![Len(draws)] = Append(@, << >>)]
  /\ pc' = "asset"
  /\ UNCHANGED << config, yearly_returns, data, current_sim_data, portfolio_value,
                  trial, year, report, err >>

\* line 162
InitialShare(weight) == FMul(FromInt(INITIAL_INVESTMENT), weight)

\* the share taken from the value the earlier assets of the year already moved
asset_value_running(weight) == FMul(FAdd(portfolio_value, value_to_add), weight)

\* line 164: the portfolio is rebalanced
asset_value(weight) == FMul(portfolio_value, weight)

RecordDraw(r) ==
  [draws EXCEPT ![Len(draws)] = [@ EXCEPT ![Len(@)] = Append(@, r)]]

\* lines 158-166: one iteration of "for asset in PORTFOLIO"
AssetStep ==
  /\ pc = "asset"
  /\ asset_idx <= Len(PORTFOLIO)
  /\ LET asset == PORTFOLIO[asset_idx].asset
         weight == PORTFOLIO[asset_idx].weight
     IN  IF year = 0
         THEN /\ portfolio_value' = FAdd(portfolio_value, InitialShare(weight))
              /\ asset_idx' = asset_idx + 1
              /\ UNCHANGED << value_to_add, draws, pc, err >>
         ELSE IF yearly_returns[asset] = << >>
         THEN \* random.choice of an empty list
              /\ Raise("IndexError")
              /\ UNCHANGED << portfolio_value, value_to_add, asset_idx, draws >>
         ELSE \E i \in 1..Len(yearly_returns[asset]) :
                LET random_return == yearly_returns[asset][i]
                IN  /\ value_to_add' =
                         FAdd(value_to_add, FMul(asset_value(weight), random_return))
                    /\ draws' = RecordDraw(random_return)
                    /\ asset_idx' = asset_idx + 1
                    /\ UNCHANGED << portfolio_value, pc, err >>
  /\ UNCHANGED << config, yearly_returns, data, current_sim_data, trial, year, report >>

\* lines 168-169
EndYear ==
  /\ pc = "asset"
  /\ asset_idx > Len(PORTFOLIO)
  /\ portfolio_value' = FAdd(portfolio_value, value_to_add)
  /\ current_sim_data' = Append(current_sim_data, portfolio_value')
  /\ year' = year + 1
  /\ pc' = "year"
  /\ UNCHANGED << config, yearly_returns, data, value_to_add, trial, asset_idx,
                  draws, report, err >>

\* line 171
EndTrial ==
  /\ pc = "year"
  /\ ~MoreYears
  /\ data' = Append(data, current_sim_data)
  /\ trial' = trial + 1
  /\ pc' = "trial"
  /\ UNCHANGED << config, yearly_returns, current_sim_data, portfolio_value,
                  value_to_add, year, asset_idx, draws, report, err >>

\* line 190: sim_data[-1] / INITIAL_INVESTMENT * 100 - 100
FinalGrowth(sim_data) ==
  FSub(FMul(FDiv(sim_data[Len(sim_data)], FromInt(INITIAL_INVESTMENT)), FromInt(100)),
       FromInt(100))

\* the inclusive range the docstring describes
Selected_inclusive(growth, min_growth_pct, max_growth_pct) ==
  IF min_growth_pct = None /\ max_growth_pct # None
  THEN RLeq(growth, max_growth_pct)
  ELSE IF min_growth_pct # None /\ max_growth_pct = None
  THEN RLeq(min_growth_pct, growth)
  ELSE RLeq(min_growth_pct, growth) /\ RLeq(growth, max_growth_pct)

\* lines 126-138: the test applied to one growth by the loop the bounds select
Selected(growth, min_growth_pct, max_growth_pct) ==
  IF min_growth_pct = None /\ max_growth_pct # None
  THEN RLess(growth, max_growth_pct)
  ELSE IF min_growth_pct # None /\ max_growth_pct = None
  THEN RLess(min_growth_pct, growth)
  ELSE RLess(min_growth_pct, growth) /\ RLess(growth, max_growth_pct)

Returned(v) == [raised |-> "", value |-> v]

Raised(e) == [raised |-> e, value |-> None]

\* Python 2 ordering, where None sorts below every number: no TypeError, and
\* "None < growth < None" is false for every growth
growth_probability_py2(growth_data, min_growth_pct, max_growth_pct) ==
  IF Len(growth_data) = 0
  THEN Raised("ZeroDivisionError")
  ELSE LET count == IF min_growth_pct = None /\ max_growth_pct = None THEN 0
                    ELSE Cardinality({ i \in 1..Len(growth_data) :
                           Selected(growth_data[i], min_growth_pct, max_growth_pct) })
       IN  Returned(FMul(FDiv(FromInt(count), FromInt(Len(growth_data))), FromInt(100)))

\* lines 100-140.  With both bounds None the else branch compares None with
\* the first growth, a TypeError; an empty growth_data skips every loop and
\* divides by len(growth_data) = 0.
growth_probability(growth_data, min_growth_pct, max_growth_pct) ==
  IF Len(growth_data) > 0 /\ min_growth_pct = None /\ max_growth_pct = None
  THEN Raised("TypeError")
  ELSE IF Len(growth_data) = 0
  THEN Raised("ZeroDivisionError")
  ELSE LET count == Cardinality({ i \in 1..Len(growth_data) :
                        Selected(growth_data[i], min_growth_pct, max_growth_pct) })
       IN  Returned(FMul(FDiv(FromInt(count), FromInt(Len(growth_data))), FromInt(100)))

\* lines 174-192: the loop is over; the plots leave data alone
ComputeFinalGrowths ==
  /\ pc = "trial"
  /\ ~MoreTrials
  /\ final_growths' = [i \in 1..Len(data) |-> FinalGrowth(data[i])]
  /\ pc' = "stats"
  /\ UNCHANGED << config, yearly_returns, sim, outperformance_probability,
                  gp_args, gp_result, err >>

\* lines 199-202: statistics.mean raises StatisticsError on no data
PrintStatistics ==
  /\ pc = "stats"
  /\ IF Len(final_growths) = 0
     THEN Raise("StatisticsError")
     ELSE pc' = "benchmark" /\ UNCHANGED err
  /\ UNCHANGED << config, yearly_returns, sim, report >>

\* lines 204-205
PrintOutperformance ==
  /\ pc = "benchmark"
  /\ LET r == growth_probability(final_growths, benchmark_future_value, None)
     IN  IF r.raised # ""
         THEN Raise(r.raised) /\ UNCHANGED outperformance_probability
         ELSE /\ outperformance_probability' = r.value
              /\ pc' = "done"
              /\ UNCHANGED err
  /\ UNCHANGED << config, yearly_returns, sim, final_growths, gp_args, gp_result >>

\* step 6 of the usage notes: growth_probability(final_growths, min, max)
\* called once the script has run and final_growths exists
Query ==
  /\ pc = "done" \/ (pc = "failed" /\ err = "StatisticsError")
  /\ gp_args = None
  /\ \E min_growth_pct \in GrowthBounds, max_growth_pct \in GrowthBounds :
       /\ gp_args' = <<min_growth_pct, max_growth_pct>>
       /\ gp_result' = growth_probability(final_growths, min_growth_pct, max_growth_pct)
  /\ UNCHANGED << config, yearly_returns, sim, final_growths,
                  outperformance_probability, pc, err >>

Next ==
  \/ LoadReturns
  \/ StartSimulation
  \/ StartTrial
  \/ StartYear
  \/ AssetStep
  \/ EndYear
  \/ EndTrial
  \/ ComputeFinalGrowths
  \/ PrintStatistics
  \/ PrintOutperformance
  \/ Query

Spec == Init /\ [][Next]_vars

\* ------------------------------------------------------------ properties
RECURSIVE WeightSum(_)
\* sum(weights), added up left to right as floats
WeightSum(p) ==
  IF p = << >> THEN FromInt(0)
  ELSE FAdd(WeightSum(SubSeq(p, 1, Len(p) - 1)), p[Len(p)].weight)

WeightsSumToOne == WeightSum(PORTFOLIO) = FromInt(1)

WeightsValid ==
  /\ WeightsSumToOne
  /\ \A k \in 1..Len(PORTFOLIO) :
       /\ RLess(FromInt(0), PORTFOLIO[k].weight)
       /\ RLeq(PORTFOLIO[k].weight, FromInt(1))

\* The trajectory of started trial t: completed, or the one being built.
Trajectory(t) == IF t <= Len(data) THEN data[t] ELSE current_sim_data

\* The simulation loop has run to its end.
LoopFinished ==
  \/ pc = "trial" /\ ~MoreTrials
  \/ pc \in {"stats", "benchmark", "done"}
  \/ pc = "failed" /\ err = "StatisticsError"

GrowthsComputed ==
  \/ pc \in {"stats", "benchmark", "done"}
  \/ pc = "failed" /\ err = "StatisticsError"

\* C1: with weights summing to 1, the first value of every trajectory is
\* exactly the initial investment, and no return is drawn in year 0 of any
\* trial.
C1_YearZeroIsInitialInvestment ==
  WeightsSumToOne =>
    \A t \in 1..Len(draws) :
      /\ Len(Trajectory(t)) >= 1 => Trajectory(t)[1] = FromInt(INITIAL_INVESTMENT)
      /\ Len(draws[t]) >= 1 => draws[t][1] = << >>

\* C2: when the simulation loop has finished (TRIALS >= 1), data holds TRIALS
\* trajectories and each of them holds YEARS_TO_SIMULATE + 1 values.
C2_MatrixShape ==
  (LoopFinished /\ TRIALS >= 1) =>
    /\ Len(data) = TRIALS
    /\ \A t \in 1..Len(data) : Len(data[t]) = YEARS_TO_SIMULATE + 1

C2_Witness ==
  /\ LoopFinished
  /\ TRIALS >= 2
  /\ YEARS_TO_SIMULATE >= 1
  /\ Len(data) = TRIALS

RECURSIVE YearDelta(_, _, _)
\* sum over the first k assets of prev * weight * drawn return
YearDelta(prev, drawn, k) ==
  IF k = 0 THEN FromInt(0)
  ELSE FAdd(YearDelta(prev, drawn, k - 1),
            FMul(FMul(prev, PORTFOLIO[k].weight), drawn[k]))

InPool(r, asset) ==
  /\ asset \in DOMAIN yearly_returns
  /\ \E i \in 1..Len(yearly_returns[asset]) : yearly_returns[asset][i] = r

\* C3: every recorded value of year y >= 1 is the value of year y-1 plus the
\* sum over all assets of value[y-1] * weight * r, r one element of the
\* asset's own pool: each share is taken from the value at the start of the
\* year.  Stated of the latest trial started, the one being simulated or
\* just completed: every trial is the latest from its start to its end.
C3_AnnualRebalancing ==
  \A t \in {Len(draws)} \ {0} :
    \A y \in 1..(Len(Trajectory(t)) - 1) :
      LET prev == Trajectory(t)[y]
          drawn == draws[t][y + 1]
      IN  /\ Len(drawn) = Len(PORTFOLIO)
          /\ \A k \in 1..Len(PORTFOLIO) : InPool(drawn[k], PORTFOLIO[k].asset)
          /\ Trajectory(t)[y + 1] = FAdd(prev, YearDelta(prev, drawn, Len(PORTFOLIO)))

C3_Witness ==
  /\ Len(PORTFOLIO) = 2
  /\ Len(data) >= 1
  /\ Len(data[1]) = 3
  /\ draws[1][2] # draws[1][3]
  /\ data[1][3] # data[1][2]

\* C4: final_growths has one element per trial, each equal to
\* (last value of the trajectory / initial investment - 1) * 100; with
\* years = 0 and weights summing to 1 every final growth is 0.
C4_FinalGrowths ==
  GrowthsComputed =>
    /\ Len(final_growths) = TRIALS
    /\ Len(final_growths) = Len(data)
    /\ \A t \in 1..Len(final_growths) :
         final_growths[t] =
           FMul(FSub(FDiv(data[t][Len(data[t])], FromInt(INITIAL_INVESTMENT)),
                     FromInt(1)),
                FromInt(100))
    /\ (YEARS_TO_SIMULATE = 0 /\ WeightsSumToOne) =>
         \A t \in 1..Len(final_growths) : final_growths[t] = FromInt(0)


\* The call growth_probability(final_growths, mn, mx) has been made.
Queried(mn, mx) == gp_args = <<mn, mx>>

Percentage(count, total) == FMul(FDiv(FromInt(count), FromInt(total)), FromInt(100))

C6_OutperformanceCountsFinalValues ==
  pc = "done" =>
    outperformance_probability =
      Percentage(Cardinality({ t \in 1..Len(data) :
                    RLess(benchmark_future_value, data[t][Len(data[t])]) }),
                 Len(data))

\* Some asset of the portfolio has a history that yields an empty return pool.
HasEmptyPool ==
  \E k \in 1..Len(PORTFOLIO) :
    LET r == get_yearly_returns(history[PORTFOLIO[k].asset])
    IN  r.raised = "" /\ r.value = << >>

\* C7: with an empty return pool in the portfolio the run fails before any
\* trial begins: no trial is ever started (draws gets an entry per trial
\* started), nothing is drawn, and no trajectory, complete or partial, exists.
C7_EmptyPoolFailsBeforeTrials ==
  HasEmptyPool =>
    /\ draws = << >>
    /\ data = << >>
    /\ current_sim_data = << >>

\* C8 as claimed: with both bounds None growth_probability fails with the
\* invalid-range error (the TypeError of comparing with None) for every
\* growth distribution.
C8_InvalidRangeForEveryDistribution ==
  Queried(None, None) => gp_result = Raised("TypeError")

\* C8 as amended: with both bounds None growth_probability never returns a
\* value; it fails with the TypeError for every non-empty distribution and
\* with the ZeroDivisionError for the empty one.
C8_NoBoundsAlwaysFails ==
  Queried(None, None) =>
    gp_result = IF Len(final_growths) = 0
                THEN Raised("ZeroDivisionError")
                ELSE Raised("TypeError")

C8_Witness ==
  /\ Queried(None, None)
  /\ Len(final_growths) >= 2
  /\ gp_result.raised = "TypeError"

\* C9: a portfolio whose weights do not sum to 1, or with a weight outside
\* (0,1], is rejected before the first trial: no trajectory value is recorded.
C9_InvalidWeightsRejected ==
  ~WeightsValid => (current_sim_data = << >> /\ data = << >>)

\* Completed trials with the same draws have the same trajectory.
SameDrawsSameTrajectory ==
  \A t1 \in 1..Len(data), t2 \in 1..Len(data) :
    draws[t1] = draws[t2] => data[t1] = data[t2]

C10_Step ==
  \* the pools and the weights are read-only once the simulation has started
  /\ pc # "load" => (yearly_returns' = yearly_returns /\ PORTFOLIO' = PORTFOLIO)
  \* a trial begins with its value and trajectory reset, a year with its delta reset
  /\ (pc = "trial" /\ pc' = "year") =>
        (portfolio_value' = FromInt(0) /\ current_sim_data' = << >>)
  /\ (pc = "year" /\ pc' = "asset") => value_to_add' = FromInt(0)
  \* a completed trajectory is never changed
  /\ Len(data') >= Len(data)
  /\ \A t \in 1..Len(data) : data'[t] = data[t]
  /\ SameDrawsSameTrajectory'

\* C10: trials share no mutable state: pools and weights are never modified
\* once the simulation starts, every trial starts from reset running state,
\* completed trajectories never change, and a trajectory is determined by
\* the draws of its own trial.
C10_TrialsIndependent == [][C10_Step]_vars

C10_Witness ==
  /\ Len(data) >= 2
  /\ YEARS_TO_SIMULATE >= 1
  /\ draws[1] = draws[2]
  /\ data[1][Len(data[1])] # FromInt(INITIAL_INVESTMENT)
====
